---------------------------- MODULE Spec2Model ----------------------------
(***************************************************************************)
(* The expression-frame pipeline of src/app/api/analyze_exp/route.ts: one  *)
(* POST request, followed from one await to the next.  The external        *)
(* collaborators (fetch, the inference call, ffprobe, ffmpeg, the image    *)
(* host) answer nondeterministically with every outcome their interface    *)
(* allows.                                                                 *)
(***************************************************************************)
EXTENDS Integers, Sequences, FiniteSets, TLC

(* ------------------------------ bounds -------------------------------- *)
\* The longest array of timestamp ranges the model may return.
MaxTs == 2
\* The most keys of a JSON object the model may return.
MaxKeys == 2
\* The largest hours field of the timestamps converted on their own.
MaxHours == 2
\* How far the clock runs, in milliseconds, while two requests are handled.
MaxClock == 2
\* How many requests are handled at once.
NumRequests == 2
\* How many nested invocations of the proxy the platform lets run.
MaxHops == 3
\* How many times the user starts the processing of a video.
MaxRuns == 2

(* ------------------------- program constants -------------------------- *)
\* route.ts:173, the inline-data ceiling 20 * 1024 * 1024.
MaxVideoBytes == 20 * 1024 * 1024
\* route.ts:182
allExpressions == <<"happy", "sad", "angry", "surprised", "neutral">>

Range(s) == {s[i] : i \in 1..Len(s)}

(* ------------------------------ inputs -------------------------------- *)
\* A JavaScript value that is undefined is written with this string.
Undefined == "<undefined>"
\* `videoUrl` of the request body: absent, the empty string, or a locator.
VideoUrls == {Undefined, "", "https://x/video.mp4"}
\* `expression` of the request body: absent, "all", one of the five, or a
\* name outside the five (the handler does not validate it).
Expressions == {Undefined, "all", "happy", "bored"}
\* Sizes of the fetched body, around the ceiling.
VideoSizes == {MaxVideoBytes - 1, MaxVideoBytes, MaxVideoBytes + 1}
\* Durations ffprobe may report, in seconds.
Durations == {30, 3661}
\* "HH:MM:SS" strings, held as the fields split(':') yields.
\* One at the shorter duration exactly, one past it.
Timestamps == {<<0, 0, 30>>, <<0, 5, 0>>}

----------------------------------------------------------------------------
(* --------------------------- JSON values ------------------------------ *)
\* One element of a timestamp array: {start, end}, or an element with no
\* "start" (for which ts.start is undefined).  `end` is never read by the
\* handler and is left out.
TsItems == [hasStart : {TRUE}, start : Timestamps]
             \cup {[hasStart |-> FALSE, start |-> <<>>]}

JPrim(t) == [t |-> t, items |-> <<>>, entries |-> <<>>]
JArray(items) == [t |-> "array", items |-> items, entries |-> <<>>]
JObject(entries) == [t |-> "object", items |-> <<>>, entries |-> entries]

SeqsUpTo(S, n) == UNION {[1..k -> S] : k \in 0..n}
Injective(s) == \A i, j \in 1..Len(s) : s[i] = s[j] => i = j

JArrays == {JArray(s) : s \in SeqsUpTo(TsItems, MaxTs)}
\* What the model may put under a key of its object: a short array of
\* ranges, or null.
JMemberValues == {JArray(s) : s \in SeqsUpTo(TsItems, 1)} \cup {JPrim("null")}
\* Keys the model may use: inside the five, and outside them.
JKeys == {"happy", "neutral", "bored"}
JKeySeqs == {s \in SeqsUpTo(JKeys, MaxKeys) : Injective(s)}
JObjects ==
  UNION {{JObject([i \in 1..Len(ks) |-> [key |-> ks[i], value |-> vs[i]]]) :
             vs \in [1..Len(ks) -> JMemberValues]} : ks \in JKeySeqs}
JValues == JArrays \cup JObjects \cup {JPrim("null"), JPrim("number")}

(* ------------------------ the model's answer -------------------------- *)
\* The text is a sequence of pieces: a Markdown fence marker, prose, or the
\* text of one JSON value.
Fence == [tok |-> "fence", val |-> JPrim("null")]
Prose == [tok |-> "prose", val |-> JPrim("null")]
Json(v) == [tok |-> "json", val |-> v]
ModelTexts ==
  {<<>>, <<Prose>>, <<Fence, Fence>>}
    \cup {<<Json(v)>> : v \in JValues}
    \cup {<<Fence, Json(v), Fence>> : v \in JValues}
    \cup {<<Prose, Json(v)>> : v \in JArrays}

----------------------------------------------------------------------------
VARIABLES
  pc,          \* where the handler is suspended
  ffmpegPath,  \* module state: whether a path to ffmpeg was found
  req,         \* the request body
  calls,       \* external calls issued so far, by capability
  files,       \* the temporary files that exist
  tempPath,    \* the temporary video file's path, once chosen
  analysis,    \* Object.entries(analysis)
  duration,    \* the probed duration
  ei, ti,      \* the loops' positions: expression, timestamp
  frameUrls,   \* the frames of the expression in hand
  results,     \* Object.entries(results)
  response,    \* the response returned
  failed,      \* the kind of the first failure
  fetched,     \* size of the fetched body, once fetched
  modelJson,   \* the value JSON.parse gave
  origin       \* for each hosted url, the timestamp it was extracted at

vars == <<pc, ffmpegPath, req, calls, files, tempPath, analysis,
          duration, ei, ti, frameUrls, results, response,
          failed, fetched, modelJson, origin>>

(* ---------------- the other parts of the repository ------------------- *)
\* The handler above is one of four parts that are followed here; each of
\* the other three, and the timestamp conversion taken alone, has its own
\* variables, at rest while another part runs.
VARIABLES
  cvHms,       \* the hours, minutes and seconds a timestamp is written from
  cvText,      \* the "HH:MM:SS" string, character by character
  cvSecs       \* tsSeconds, once computed
convVars == <<cvHms, cvText, cvSecs>>

VARIABLES
  tNow,        \* Date.now(), shared by the requests
  tReq,        \* per request: position, content type's extension, tempPath
  tDisk        \* the temporary directory: for each path, whose bytes it holds
twoVars == <<tNow, tReq, tDisk>>

VARIABLES
  pxRoute,     \* which of the two POST bodies of analyze/route.ts is built
  pxBody,      \* the incoming request's body
  pxStack,     \* the invocations of the proxy handler in flight
  pxForwards,  \* requests forwarded so far
  pxResponse   \* the response to the incoming request
proxyVars == <<pxRoute, pxBody, pxStack, pxForwards, pxResponse>>

VARIABLES
  uiVideoUrl,       \* videoUrl state: whether a video was provided
  processing,       \* processing state
  processProgress,  \* processProgress state
  intervals,        \* the interval timers that are set
  timeouts,         \* the pending setTimeout callbacks
  awaiting,         \* the runs whose axios.post is in flight
  runs              \* runs of handleProcessVideo started so far
uiVars == <<uiVideoUrl, processing, processProgress, intervals, timeouts,
            awaiting, runs>>

allVars == <<vars, convVars, twoVars, proxyVars, uiVars>>

ConvOff == cvHms = <<0, 0, 0>> /\ cvText = <<>> /\ cvSecs = -1
TwoOff == tNow = 0 /\ tReq = <<>> /\ tDisk = <<>>
ProxyOff ==
  /\ pxRoute = ""
  /\ pxBody = [readable |-> FALSE, videoUrl |-> "", expression |-> ""]
  /\ pxStack = <<>>
  /\ pxForwards = 0
  /\ pxResponse = 0
UiOff ==
  /\ uiVideoUrl = FALSE
  /\ processing = FALSE
  /\ processProgress = 0
  /\ intervals = {}
  /\ timeouts = 0
  /\ awaiting = {}
  /\ runs = 0

NoResponse == [status |-> 0, message |-> "", expressions |-> <<>>]
NoCalls == [fetch |-> 0, inference |-> 0, probe |-> 0, extract |-> 0, upload |-> 0]
NoPath == ""
NoJson == JPrim("none")

\* The request body: unreadable (request.json() rejects, or the body is not
\* an object that can be destructured), or an object.
Requests == [readable : BOOLEAN, videoUrl : VideoUrls, expression : Expressions]

Init ==
  /\ pc = "start"
  /\ ffmpegPath \in BOOLEAN
  /\ req \in Requests
  /\ calls = NoCalls
  /\ files = {}
  /\ tempPath = NoPath
  /\ analysis = <<>>
  /\ duration = 0
  /\ ei = 1
  /\ ti = 1
  /\ frameUrls = <<>>
  /\ results = <<>>
  /\ response = NoResponse
  /\ failed = "none"
  /\ fetched = -1
  /\ modelJson = NoJson
  /\ origin = <<>>
  /\ ConvOff /\ TwoOff /\ ProxyOff /\ UiOff

\* The handler at rest, while another part runs.
MainOff ==
  /\ pc = "off"
  /\ ffmpegPath = FALSE
  /\ req = [readable |-> FALSE, videoUrl |-> Undefined, expression |-> Undefined]
  /\ calls = NoCalls
  /\ files = {}
  /\ tempPath = NoPath
  /\ analysis = <<>>
  /\ duration = 0
  /\ ei = 1
  /\ ti = 1
  /\ frameUrls = <<>>
  /\ results = <<>>
  /\ response = NoResponse
  /\ failed = "none"
  /\ fetched = -1
  /\ modelJson = NoJson
  /\ origin = <<>>

(* --------------------------- leaving the handler ---------------------- *)
Json400(message) == [status |-> 400, message |-> message, expressions |-> <<>>]
Json500(message) == [status |-> 500, message |-> message, expressions |-> <<>>]

\* return NextResponse.json({message}, {status}) from the handler's body.
Return(kind, resp) ==
  /\ pc' = "done"
  /\ response' = resp
  /\ failed' = kind

\* An exception that reaches the outer catch.
Catch(kind) == Return(kind, Json500("Internal Server Error"))

\* The finally block of the inner try, on the files `fs`:
\* if (fs.existsSync(tempPath)) fs.unlinkSync(tempPath).
Finally(fs) == fs \ {tempPath}

----------------------------------------------------------------------------
(* ------------------------- pure helpers ------------------------------- *)
\* The check for undefined alone (videoUrl === undefined).
OnlyUndefinedVideoUrl(r) == r.videoUrl = Undefined
\* !videoUrl
MissingVideoUrl(r) == r.videoUrl \in {Undefined, ""}

\* !expression || expression === "all"
IsAllExpressions(expression) == expression \in {Undefined, ""} \/ expression = "all"

\* The check with >= for >.
TooLargeOrEqual(size) == size >= MaxVideoBytes
\* buffer.length > 20 * 1024 * 1024
TooLarge(size) == size > MaxVideoBytes

\* cleanResponse: every fence marker is removed, whatever surrounds it.
NotFence(piece) == piece.tok # "fence"
cleanResponse(text) == SelectSeq(text, NotFence)

\* JSON.parse: succeeds on the text of exactly one JSON value.
JsonParses(cleaned) == Len(cleaned) = 1 /\ cleaned[1].tok = "json"
JsonParse(cleaned) == cleaned[1].val

\* Object.entries of a parsed value: an object's members in order; an
\* array's elements under their indices (each element is a range object,
\* which is not iterable).
ObjectEntries(v) ==
  IF v.t = "object" THEN v.entries
  ELSE [i \in 1..Len(v.items) |->
          [key |-> ToString(i - 1), value |-> JObject(<<>>)]]

Keys(entries) == [i \in 1..Len(entries) |-> entries[i].key]
KeySet(entries) == {entries[i].key : i \in 1..Len(entries)}

\* for (const exp of allExpressions) if (!(exp in analysis)) analysis[exp] = []
RECURSIVE BackfillFrom(_, _)
BackfillFrom(entries, i) ==
  IF i > Len(allExpressions) THEN entries
  ELSE IF allExpressions[i] \in KeySet(entries)
         THEN BackfillFrom(entries, i + 1)
         ELSE BackfillFrom(
                Append(entries, [key |-> allExpressions[i], value |-> JArray(<<>>)]),
                i + 1)
\* A back-fill that adds nothing.
BackfillNothing(entries) == entries
Backfill(entries) == BackfillFrom(entries, 1)

\* The "all" branch: typeof analysis === 'object' && analysis !== null.
AllAccepts(v) == v.t \in {"object", "array"}
ParseAll(v) == Backfill(ObjectEntries(v))

\* The single-expression branch: Array.isArray(timestamps).
SingleAccepts(v) == v.t = "array"
\* The wrap under the literal key "expression" ({ expression: timestamps }).
ParseSingleLiteralKey(expression, v) == <<[key |-> "expression", value |-> v]>>
ParseSingle(expression, v) == <<[key |-> expression, value |-> v]>>

\* timestamp.split(':').reduce((acc, time) => acc * 60 + parseInt(time), 0)
RECURSIVE Reduce60(_, _, _)
Reduce60(fields, i, acc) ==
  IF i > Len(fields) THEN acc ELSE Reduce60(fields, i + 1, acc * 60 + fields[i])
\* The accumulation run from the last field to the first (reduceRight).
TsSecondsRightToLeft(timestamp) ==
  Reduce60([i \in 1..Len(timestamp) |-> timestamp[Len(timestamp) + 1 - i]], 1, 0)
TsSeconds(timestamp) == Reduce60(timestamp, 1, 0)

\* A check that lets every timestamp through.
NeverExceeds(timestamp, d) == FALSE
\* tsSeconds > duration
ExceedsDuration(timestamp, d) == TsSeconds(timestamp) > d

\* What the loop pushes for one uploaded frame: the hosted url, a string.
FrameElement(url, item) == [type |-> "string", value |-> url]

\* responseData
ResponseData(res) ==
  IF Len(res) > 0
    THEN [status |-> 200, message |-> "", expressions |-> res]
    ELSE [status |-> 200, message |-> "No matching expressions found",
          expressions |-> <<>>]

FramePath(n) == "frame_" \o ToString(n)
VideoPath == "video"

----------------------------------------------------------------------------
(* ------------------------------ the handler --------------------------- *)
Bump(c, what) == [c EXCEPT ![what] = @ + 1]

\* request.json(), the videoUrl check, and the call of fetch(videoUrl).
Receive ==
  /\ pc = "start"
  /\ IF ~req.readable
       THEN Catch("InvalidRequest") /\ UNCHANGED calls
       ELSE IF MissingVideoUrl(req)
         THEN /\ Return("InvalidRequest", Json400("Missing videoUrl"))
              /\ UNCHANGED calls
         ELSE /\ pc' = "fetching"
              /\ calls' = Bump(calls, "fetch")
              /\ UNCHANGED <<response, failed>>
  /\ UNCHANGED <<ffmpegPath, req, files, tempPath, analysis, duration, ei, ti,
                 frameUrls, results, fetched, modelJson, origin>>
  /\ UNCHANGED <<convVars, twoVars, proxyVars, uiVars>>

\* fetch rejects, or answers with a status that is not ok.
FetchFails ==
  /\ pc = "fetching"
  /\ Catch("UpstreamFetchError")
  /\ UNCHANGED <<ffmpegPath, req, calls, files, tempPath, analysis, duration,
                 ei, ti, frameUrls, results, fetched, modelJson,
                 origin>>
  /\ UNCHANGED <<convVars, twoVars, proxyVars, uiVars>>

\* fetch answers ok with a body of `size` bytes: the size check, then the
\* call of generateContent.
FetchOk(size) ==
  /\ pc = "fetching"
  /\ fetched' = size
  /\ IF TooLarge(size)
       THEN /\ Return("PayloadTooLarge",
                      Json400("Video too large for analysis (max 20MB)"))
            /\ UNCHANGED calls
       ELSE /\ pc' = "inferring"
            /\ calls' = Bump(calls, "inference")
            /\ UNCHANGED <<response, failed>>
  /\ UNCHANGED <<ffmpegPath, req, files, tempPath, analysis, duration, ei, ti,
                 frameUrls, results, modelJson, origin>>
  /\ UNCHANGED <<convVars, twoVars, proxyVars, uiVars>>

\* A handler that logs the rejection and goes on to the probe.
InferenceFailsGoesOn ==
  /\ pc = "inferring"
  /\ failed' = "InferenceError"
  /\ tempPath' = VideoPath
  /\ files' = files \cup {VideoPath}
  /\ calls' = Bump(calls, "probe")
  /\ pc' = "probing"
  /\ UNCHANGED <<ffmpegPath, req, analysis, duration, ei, ti, frameUrls,
                 results, response, fetched, modelJson, origin>>
  /\ UNCHANGED <<convVars, twoVars, proxyVars, uiVars>>

\* generateContent rejects.
InferenceFails ==
  /\ pc = "inferring"
  /\ Catch("InferenceError")
  /\ UNCHANGED <<ffmpegPath, req, calls, files, tempPath, analysis, duration,
                 ei, ti, frameUrls, results, fetched, modelJson,
                 origin>>
  /\ UNCHANGED <<convVars, twoVars, proxyVars, uiVars>>

\* The parsed value is accepted by the branch the request selects.
Accepts(expression, v) ==
  IF IsAllExpressions(expression) THEN AllAccepts(v) ELSE SingleAccepts(v)
Parsed(expression, v) ==
  IF IsAllExpressions(expression) THEN ParseAll(v) ELSE ParseSingle(expression, v)

\* generateContent answers `text`: the empty-text check, cleanResponse,
\* JSON.parse and the shape check, then the temporary file is written and
\* ffprobe is called on it.
InferenceAnswers(text) ==
  /\ pc = "inferring"
  /\ LET cleaned == cleanResponse(text) IN
     IF text = <<>>
       THEN /\ Return("InferenceError", Json500("No response from AI model"))
            /\ UNCHANGED <<calls, files, tempPath, analysis, modelJson>>
       ELSE IF ~JsonParses(cleaned) \/ ~Accepts(req.expression, JsonParse(cleaned))
         THEN /\ Return("MalformedAnalysis",
                        Json500("Failed to parse analysis result"))
              /\ UNCHANGED <<calls, files, tempPath, analysis, modelJson>>
         ELSE /\ modelJson' = JsonParse(cleaned)
              /\ analysis' = Parsed(req.expression, JsonParse(cleaned))
              /\ tempPath' = VideoPath
              /\ files' = files \cup {VideoPath}
              /\ calls' = Bump(calls, "probe")
              /\ pc' = "probing"
              /\ UNCHANGED <<response, failed>>
  /\ UNCHANGED <<ffmpegPath, req, duration, ei, ti, frameUrls, results,
                 fetched, origin>>
  /\ UNCHANGED <<convVars, twoVars, proxyVars, uiVars>>

\* ffprobe reports an error, or metadata without a duration: the awaited
\* promise rejects before the inner try is entered.
ProbeFails ==
  /\ pc = "probing"
  /\ Catch("MediaProbeError")
  /\ UNCHANGED <<ffmpegPath, req, calls, files, tempPath, analysis, duration,
                 ei, ti, frameUrls, results, fetched, modelJson,
                 origin>>
  /\ UNCHANGED <<convVars, twoVars, proxyVars, uiVars>>

\* ffprobe reports a duration: the inner try is entered.
ProbeOk(d) ==
  /\ pc = "probing"
  /\ duration' = d
  /\ pc' = "loop"
  /\ UNCHANGED <<ffmpegPath, req, calls, files, tempPath, analysis, ei, ti,
                 frameUrls, results, response, failed, fetched,
                 modelJson, origin>>
  /\ UNCHANGED <<convVars, twoVars, proxyVars, uiVars>>

(* ------------------- the loops over the analysis ---------------------- *)
InLoop == pc = "loop" /\ ei <= Len(analysis)
Entry == analysis[ei]
\* for (const ts of timestamps) runs over an array only; on any other value
\* timestamps.length or the iteration throws a TypeError.
Iterable(v) == v.t = "array"
Item == Entry.value.items[ti]

\* Every expression is done: responseData is returned, the finally block runs.
Respond ==
  /\ pc = "loop"
  /\ ei > Len(analysis)
  /\ pc' = "done"
  /\ response' = ResponseData(results)
  /\ files' = Finally(files)
  /\ UNCHANGED <<ffmpegPath, req, calls, tempPath, analysis, duration, ei, ti,
                 frameUrls, results, failed, fetched, modelJson, origin>>
  /\ UNCHANGED <<convVars, twoVars, proxyVars, uiVars>>

\* The value under a key is no array: a TypeError inside the inner try.
NotIterable ==
  /\ InLoop
  /\ ~Iterable(Entry.value)
  /\ Catch("MalformedAnalysis")
  /\ files' = Finally(files)
  /\ UNCHANGED <<ffmpegPath, req, calls, tempPath, analysis, duration, ei, ti,
                 frameUrls, results, fetched, modelJson, origin>>
  /\ UNCHANGED <<convVars, twoVars, proxyVars, uiVars>>

\* The timestamps of one expression are done: results[exp] = frameUrls.
ExpressionDone ==
  /\ InLoop
  /\ Iterable(Entry.value)
  /\ ti > Len(Entry.value.items)
  /\ results' = Append(results, [key |-> Entry.key, frames |-> frameUrls])
  /\ frameUrls' = <<>>
  /\ ei' = ei + 1
  /\ ti' = 1
  /\ UNCHANGED <<pc, ffmpegPath, req, calls, files, tempPath, analysis,
                 duration, response, failed, fetched, modelJson, origin>>
  /\ UNCHANGED <<convVars, twoVars, proxyVars, uiVars>>

\* extractFrame(tempPath, ts.start, duration) up to the start of ffmpeg:
\* ts.start undefined throws at split; a timestamp past the duration gives
\* null and the loop goes on; without a path to ffmpeg the promise rejects.
extractFrame ==
  /\ InLoop
  /\ Iterable(Entry.value)
  /\ ti <= Len(Entry.value.items)
  /\ IF ~Item.hasStart
       THEN /\ Catch("MalformedAnalysis")
            /\ files' = Finally(files)
            /\ UNCHANGED <<calls, ti>>
       ELSE IF ExceedsDuration(Item.start, duration)
         THEN /\ ti' = ti + 1
              /\ UNCHANGED <<pc, response, failed, files, calls>>
         ELSE IF ~ffmpegPath
           THEN /\ Catch("FrameExtractionError")
                /\ files' = Finally(files)
                /\ UNCHANGED <<calls, ti>>
           ELSE /\ pc' = "extracting"
                /\ calls' = Bump(calls, "extract")
                /\ UNCHANGED <<response, failed, files, ti>>
  /\ UNCHANGED <<ffmpegPath, req, tempPath, analysis, duration, ei, frameUrls,
                 results, fetched, modelJson, origin>>
  /\ UNCHANGED <<convVars, twoVars, proxyVars, uiVars>>

\* An 'error' handler that notes the failure and goes on to the next
\* timestamp.
ExtractErrorGoesOn(partial) ==
  /\ pc = "extracting"
  /\ failed' = "FrameExtractionError"
  /\ pc' = "loop"
  /\ ti' = ti + 1
  /\ UNCHANGED <<ffmpegPath, req, calls, files, tempPath, analysis, duration,
                 ei, frameUrls, results, response, fetched, modelJson, origin>>
  /\ UNCHANGED <<convVars, twoVars, proxyVars, uiVars>>

\* ffmpeg emits 'error', having written part of the image file or nothing.
ExtractError(partial) ==
  /\ pc = "extracting"
  /\ Catch("FrameExtractionError")
  /\ files' = Finally(IF partial THEN files \cup {FramePath(calls.extract)}
                                 ELSE files)
  /\ UNCHANGED <<ffmpegPath, req, calls, tempPath, analysis, duration, ei, ti,
                 frameUrls, results, fetched, modelJson, origin>>
  /\ UNCHANGED <<convVars, twoVars, proxyVars, uiVars>>

\* ffmpeg emits 'end' and the image file does not exist.
ExtractEndNoFile ==
  /\ pc = "extracting"
  /\ Catch("FrameExtractionError")
  /\ files' = Finally(files)
  /\ UNCHANGED <<ffmpegPath, req, calls, tempPath, analysis, duration, ei, ti,
                 frameUrls, results, fetched, modelJson, origin>>
  /\ UNCHANGED <<convVars, twoVars, proxyVars, uiVars>>

\* ffmpeg emits 'end' with the image file written: it is read and unlinked,
\* and the buffer is handed to uploadToCloudinary.
ExtractEnd ==
  /\ pc = "extracting"
  /\ files' = (files \cup {FramePath(calls.extract)}) \ {FramePath(calls.extract)}
  /\ pc' = "uploading"
  /\ calls' = Bump(calls, "upload")
  /\ UNCHANGED <<ffmpegPath, req, tempPath, analysis, duration, ei, ti,
                 frameUrls, results, response, failed, fetched, modelJson,
                 origin>>
  /\ UNCHANGED <<convVars, twoVars, proxyVars, uiVars>>

\* A callback that puts the new frame first (unshift for push).
UploadResultFirst ==
  /\ pc = "uploading"
  /\ frameUrls' = <<FrameElement(calls.upload, Item)>> \o frameUrls
  /\ origin' = Append(origin, Item.start)
  /\ ti' = ti + 1
  /\ pc' = "loop"
  /\ UNCHANGED <<ffmpegPath, req, calls, files, tempPath, analysis, duration,
                 ei, results, response, failed, fetched, modelJson>>
  /\ UNCHANGED <<convVars, twoVars, proxyVars, uiVars>>

\* The upload callback reports a result: frameUrls.push(frameUrl).
UploadResult ==
  /\ pc = "uploading"
  /\ frameUrls' = Append(frameUrls, FrameElement(calls.upload, Item))
  /\ origin' = Append(origin, Item.start)
  /\ ti' = ti + 1
  /\ pc' = "loop"
  /\ UNCHANGED <<ffmpegPath, req, calls, files, tempPath, analysis, duration,
                 ei, results, response, failed, fetched, modelJson>>
  /\ UNCHANGED <<convVars, twoVars, proxyVars, uiVars>>

\* A handler that answers with the frames uploaded so far.
UploadErrorPartial ==
  /\ pc = "uploading"
  /\ Return("UploadError",
            [status |-> 500, message |-> "Internal Server Error",
             expressions |-> Append(results,
                                    [key |-> Entry.key, frames |-> frameUrls])])
  /\ files' = Finally(files)
  /\ UNCHANGED <<ffmpegPath, req, calls, tempPath, analysis, duration, ei, ti,
                 frameUrls, results, fetched, modelJson, origin>>
  /\ UNCHANGED <<convVars, twoVars, proxyVars, uiVars>>

\* The upload callback reports an error.
UploadError ==
  /\ pc = "uploading"
  /\ Catch("UploadError")
  /\ files' = Finally(files)
  /\ UNCHANGED <<ffmpegPath, req, calls, tempPath, analysis, duration, ei, ti,
                 frameUrls, results, fetched, modelJson, origin>>
  /\ UNCHANGED <<convVars, twoVars, proxyVars, uiVars>>

\* The upload callback reports neither an error nor a result: the promise
\* never settles and the handler stays suspended.
UploadSilent ==
  /\ pc = "uploading"
  /\ pc' = "hung"
  /\ UNCHANGED <<ffmpegPath, req, calls, files, tempPath, analysis, duration,
                 ei, ti, frameUrls, results, response, failed, fetched,
                 modelJson, origin>>
  /\ UNCHANGED <<convVars, twoVars, proxyVars, uiVars>>

Next ==
  \/ Receive
  \/ FetchFails
  \/ \E size \in VideoSizes : FetchOk(size)
  \/ InferenceFails
  \/ \E text \in ModelTexts : InferenceAnswers(text)
  \/ ProbeFails
  \/ \E d \in Durations : ProbeOk(d)
  \/ Respond
  \/ NotIterable
  \/ ExpressionDone
  \/ extractFrame
  \/ \E partial \in BOOLEAN : ExtractError(partial)
  \/ ExtractEndNoFile
  \/ ExtractEnd
  \/ UploadResult
  \/ UploadError
  \/ UploadSilent

Spec == Init /\ [][Next]_allVars

----------------------------------------------------------------------------
(* ------------------------------ properties ---------------------------- *)
Finished == pc = "done"
Succeeded == pc = "done" /\ failed = "none"
FiveNames == {"happy", "sad", "angry", "surprised", "neutral"}

RECURSIVE TotalFrames(_)
TotalFrames(res) ==
  IF res = <<>> THEN 0 ELSE Len(Head(res).frames) + TotalFrames(Tail(res))

\* C1: once the temporary video file has been written, it no longer exists
\* when the response is returned, on every exit path.
C1_TempFileReleased ==
  (Finished /\ tempPath # NoPath) => tempPath \notin files

\* C2: a request that completes every expression without error and with zero
\* frames in total is answered with success status and the empty-result
\* response {expressions: {}, message: "No matching expressions found"}.
C2_EmptyResult ==
  (Succeeded /\ TotalFrames(results) = 0) =>
    response = [status |-> 200, message |-> "No matching expressions found",
                expressions |-> <<>>]

\* The keys of the value the model returned.
ReturnedKeys(v) ==
  IF v.t = "object" THEN {v.entries[i].key : i \in 1..Len(v.entries)}
  ELSE {ToString(i - 1) : i \in 1..Len(v.items)}
ParsedAll == IsAllExpressions(req.expression) /\ modelJson # NoJson

\* C3 as stated: in "all" mode the parsed analysis has exactly the five fixed
\* keys, whatever keys the model returned.
C3_ExactlyFive ==
  (ParsedAll /\ modelJson.t = "object") => KeySet(analysis) = FiveNames

\* C3 as amended: in "all" mode the parsed analysis has the five fixed keys
\* together with every key the model returned (none dropped or renamed), so
\* exactly the five when the model returned only keys among them; a fixed key
\* the model did not return holds an empty sequence.
C3_FiveAndReturned ==
  ParsedAll =>
    /\ KeySet(analysis) = FiveNames \cup ReturnedKeys(modelJson)
    /\ (ReturnedKeys(modelJson) \subseteq FiveNames => KeySet(analysis) = FiveNames)
    /\ \A i \in 1..Len(analysis) :
         analysis[i].key \notin ReturnedKeys(modelJson) =>
           analysis[i].value = JArray(<<>>)

C3_Witness ==
  /\ ParsedAll
  /\ ReturnedKeys(modelJson) = {"bored", "happy"}
  /\ "sad" \in KeySet(analysis)
  /\ "bored" \in KeySet(analysis)

\* C4: a request for a single named expression that completes without error
\* returns an expressions mapping with exactly one key, the requested name.
C4_SingleKey ==
  (Succeeded /\ ~IsAllExpressions(req.expression)) =>
    /\ response.status = 200
    /\ Keys(response.expressions) = <<req.expression>>

C4_Witness ==
  /\ Succeeded
  /\ req.expression = "bored"
  /\ Len(response.expressions) = 1
  /\ Len(response.expressions[1].frames) = 1

\* "HH:MM:SS" in seconds, by the positional formula.
Seconds(ts) == ts[1] * 3600 + ts[2] * 60 + ts[3]
PastEnd(item) == item.hasStart /\ Seconds(item.start) > duration
\* The loop stands at a timestamp whose start lies past the probed duration.
AtPastEnd ==
  /\ InLoop
  /\ Iterable(Entry.value)
  /\ ti <= Len(Entry.value.items)
  /\ PastEnd(Item)
\* The step taken there: no call, no frame, no failure, on to the next one.
Skipped ==
  /\ calls' = calls
  /\ files' = files
  /\ frameUrls' = frameUrls
  /\ results' = results
  /\ origin' = origin
  /\ failed' = "none"
  /\ response' = NoResponse
  /\ pc' = "loop"
  /\ ei' = ei
  /\ ti' = ti + 1
\* How many of `items` lie within the duration.
RECURSIVE Within(_)
Within(items) ==
  IF items = <<>> THEN 0
  ELSE (IF PastEnd(Head(items)) THEN 0 ELSE 1) + Within(Tail(items))
\* No frame comes from a timestamp past the end, and a request that succeeds
\* has one frame for each of its other timestamps.
FramesWithin ==
  /\ \A u \in 1..Len(origin) : Seconds(origin[u]) <= duration
  /\ Succeeded =>
       /\ Len(results) = Len(analysis)
       /\ \A i \in 1..Len(results) :
            /\ results[i].key = analysis[i].key
            /\ Len(results[i].frames) = Within(analysis[i].value.items)

\* C5: a timestamp whose start, in seconds, exceeds the probed duration is
\* skipped: no extraction call and no upload is made for it, no frame of it
\* is in the output, the request does not fail because of it, and the
\* timestamps after it are still processed.
C5_SkipPastDuration == []FramesWithin /\ [][AtPastEnd => Skipped]_vars

C5_Witness ==
  /\ Succeeded
  /\ Len(analysis) = 1
  /\ Len(analysis[1].value.items) = 2
  /\ PastEnd(analysis[1].value.items[1])
  /\ ~PastEnd(analysis[1].value.items[2])
  /\ Len(response.expressions[1].frames) = 1
  /\ calls.extract = 1
  /\ calls.upload = 1

C7_MissingVideoUrl ==
  (req.readable /\ req.videoUrl \in {Undefined, ""}) =>
    /\ calls = NoCalls
    /\ files = {}
    /\ tempPath = NoPath
    /\ pc \in {"start", "done"}
    /\ Finished => response = Json400("Missing videoUrl")

C7_Witness ==
  /\ req.readable
  /\ req.videoUrl = Undefined
  /\ Finished
  /\ response.status = 400

\* C8: every element of every expression's sequence in a success response is
\* a frame result carrying the hosted url and the source timestamp, the start
\* of the range the frame was produced from.
C8_FrameResults ==
  (Finished /\ response.status = 200) =>
    \A i \in 1..Len(response.expressions) :
      \A f \in Range(response.expressions[i].frames) :
        /\ f.type = "object"
        /\ f.url \in 1..calls.upload
        /\ f.timestamp = origin[f.url]

\* The status the error kinds are given.
StatusOf(kind) ==
  IF kind \in {"InvalidRequest", "PayloadTooLarge"} THEN 400 ELSE 500

\* C9: every error response has the status of its kind: 400 for missing or
\* invalid input (a body that cannot be read included) and for an oversize
\* payload, 500 for fetch, inference, parse, probe, extraction and upload
\* failures; no failure is answered 2xx.
C9_StatusByKind ==
  (Finished /\ failed # "none") => response.status = StatusOf(failed)

\* C10: failure is terminal: after the first failure of any stage no further
\* external call of any kind is issued, and the failed call is not repeated.
C10_FailureTerminal == [][failed # "none" => calls' = calls]_vars

C10_Witness ==
  /\ failed = "FrameExtractionError"
  /\ calls.extract = 1
  /\ InLoop \/ (pc = "done" /\ ei <= Len(analysis))
  /\ ti < Len(analysis[ei].value.items)

\* C11 as stated: the duration probe completes before the inference call is
\* issued, and a probe failure prevents any inference call.
ProbeCompleted == calls.probe = 1 /\ pc # "probing"
C11_ProbeBeforeInference ==
  /\ calls.inference > 0 => ProbeCompleted
  /\ failed = "MediaProbeError" => calls.inference = 0

\* The stage a position of the handler belongs to.
StageOf(p) ==
  CASE p = "start" -> 0
    [] p = "fetching" -> 1
    [] p = "inferring" -> 2
    [] p = "probing" -> 3
    [] p \in {"loop", "extracting", "uploading", "hung"} -> 4
    [] OTHER -> 5
\* C11 as amended: the stages occur in the order Validated, Fetched,
\* Inferred, Parsed, Probed, Extracting/Uploading, Assembled: the inference
\* call completes and its answer is parsed before the temporary file is
\* written and probed, the probe completes before any extraction, and an
\* inference failure prevents any probe.
StagesInOrder ==
  /\ calls.inference > 0 => (calls.fetch = 1 /\ fetched >= 0)
  /\ calls.probe > 0 =>
       (calls.inference = 1 /\ pc # "inferring" /\ modelJson # NoJson
          /\ analysis # <<>>)
  /\ (calls.extract > 0 \/ calls.upload > 0) =>
       (ProbeCompleted /\ duration \in Durations)
  /\ failed = "InferenceError" => (calls.probe = 0 /\ tempPath = NoPath)
  /\ response.status = 200 => ProbeCompleted
C11_InferenceBeforeProbe ==
  []StagesInOrder /\ [][StageOf(pc') >= StageOf(pc)]_vars

C11_Witness ==
  /\ failed = "MediaProbeError"
  /\ calls.inference = 1
  /\ calls.probe = 1

\* C12: in "all" mode a parsed value that is no JSON object, and in
\* single-expression mode one that is no array, ends the request with
\* MalformedAnalysis (500), and no extraction or upload is attempted.
WantedShape == IF IsAllExpressions(req.expression) THEN "object" ELSE "array"
C12_OnlyWantedShape ==
  (modelJson # NoJson /\ modelJson.t # WantedShape) =>
    /\ Finished
    /\ response.status = 500
    /\ failed = "MalformedAnalysis"
    /\ calls.extract = 0
    /\ calls.upload = 0

\* C13: an extraction failure or an upload failure on any timestamp ends the
\* request with a 500 error response, nothing more is extracted or uploaded,
\* and the frames uploaded before the failure are not returned.
FatalKinds == {"FrameExtractionError", "UploadError"}
Fatal ==
  failed \in FatalKinds =>
    /\ Finished
    /\ response = Json500("Internal Server Error")
NothingMore == UNCHANGED <<calls, results, frameUrls, ei, ti, response>>
C13_FrameFailureFatal ==
  []Fatal /\ [][(failed \in FatalKinds) => NothingMore]_vars

C13_Witness ==
  /\ failed = "UploadError"
  /\ Len(frameUrls) = 1
  /\ calls.upload = 2
  /\ response.expressions = <<>>

\* C14: once extractFrame has settled, the temporary image file it named no
\* longer exists, whether the tool succeeded, emitted an error (possibly
\* after writing part of the file) or ended without the file.
C14_FrameFileReleased ==
  pc # "extracting" => \A n \in 1..calls.extract : FramePath(n) \notin files

\* The timestamps a frame sequence came from.
Origins(frames) == [k \in 1..Len(frames) |-> origin[frames[k].value]]
\* The starts of the timestamps of `items` that lie within the duration.
RECURSIVE StartsWithin(_)
StartsWithin(items) ==
  IF items = <<>> THEN <<>>
  ELSE (IF PastEnd(Head(items)) THEN <<>> ELSE <<Head(items).start>>)
         \o StartsWithin(Tail(items))
C18_RespondsOrGoesOn == Finished \/ ENABLED Next

----------------------------------------------------------------------------
(* ------------- the timestamp conversion, taken on its own ------------- *)
DigitChars == <<"0", "1", "2", "3", "4", "5", "6", "7", "8", "9">>
IsDigit(c) == \E d \in 1..10 : DigitChars[d] = c
DigitValue(c) == (CHOOSE d \in 1..10 : DigitChars[d] = c) - 1

\* A field of the "HH:MM:SS" format the prompt asks for: two digits.
TwoDigits(n) == <<DigitChars[(n \div 10) + 1], DigitChars[(n % 10) + 1]>>
FormatTs(hms) ==
  TwoDigits(hms[1]) \o <<":">> \o TwoDigits(hms[2]) \o <<":">> \o TwoDigits(hms[3])
WellFormedHms == (0..MaxHours) \X (0..59) \X (0..59)

\* timestamp.split(':'): the pieces between the colons.
RECURSIVE SplitFrom(_, _, _, _)
SplitFrom(text, i, piece, pieces) ==
  IF i > Len(text) THEN Append(pieces, piece)
  ELSE IF text[i] = ":" THEN SplitFrom(text, i + 1, <<>>, Append(pieces, piece))
  ELSE SplitFrom(text, i + 1, Append(piece, text[i]), pieces)
Split(text) == SplitFrom(text, 1, <<>>, <<>>)

\* parseInt(time): the value of the leading decimal digits.
RECURSIVE ParseIntFrom(_, _, _)
ParseIntFrom(field, i, acc) ==
  IF i > Len(field) \/ ~IsDigit(field[i]) THEN acc
  ELSE ParseIntFrom(field, i + 1, acc * 10 + DigitValue(field[i]))
parseInt(field) == ParseIntFrom(field, 1, 0)

\* tsSeconds of the string `text`.
TsSecondsOfText(text) ==
  LET pieces == Split(text) IN
  TsSeconds([i \in 1..Len(pieces) |-> parseInt(pieces[i])])

InitConv ==
  /\ cvHms \in WellFormedHms
  /\ cvText = FormatTs(cvHms)
  /\ cvSecs = -1
  /\ MainOff /\ TwoOff /\ ProxyOff /\ UiOff

Convert ==
  /\ cvSecs = -1
  /\ cvSecs' = TsSecondsOfText(cvText)
  /\ UNCHANGED <<cvHms, cvText>>
  /\ UNCHANGED <<vars, twoVars, proxyVars, uiVars>>

NextConv == Convert

SpecConv == InitConv /\ [][NextConv]_allVars

\* C17: the conversion maps every well-formed "HH:MM:SS" string to
\* (H*60+M)*60+S, each field weighted 60 times the one after it; "01:01:01"
\* converts to 3661.
C17_Conversion ==
  cvSecs # -1 =>
    /\ cvSecs = (cvHms[1] * 60 + cvHms[2]) * 60 + cvHms[3]
    /\ cvText = <<"0", "1", ":", "0", "1", ":", "0", "1">> => cvSecs = 3661

C17_Witness ==
  /\ cvText = <<"0", "1", ":", "0", "1", ":", "0", "1">>
  /\ cvSecs = 3661

----------------------------------------------------------------------------
(* --------- concurrent requests and the temporary video file ----------- *)
\* Each request is followed from the point where its analysis is parsed:
\* the temporary file is written and probed, the frames are extracted inside
\* the inner try, and the finally block unlinks the file.
RequestIds == 1..NumRequests
\* mimeType.split('/')[1] || 'mp4', for the content types video/mp4 and
\* video/webm.
VideoExts == {"mp4", "webm"}
NoTempPath == [now |-> -1, ext |-> ""]
\* path.join(tempDir, `video_${Date.now()}.${videoExt}`)
TempPathAt(now, ext) == [now |-> now, ext |-> ext]

InitTwo ==
  /\ tNow = 0
  /\ tReq \in [RequestIds -> [pc : {"parsed"}, ext : VideoExts, path : {NoTempPath}]]
  /\ tDisk = <<>>
  /\ MainOff /\ ConvOff /\ ProxyOff /\ UiOff

\* The clock moves on by a millisecond.
Tick ==
  /\ tNow < MaxClock
  /\ tNow' = tNow + 1
  /\ UNCHANGED <<tReq, tDisk>>
  /\ UNCHANGED <<vars, convVars, proxyVars, uiVars>>

\* The file `p` written with the bytes of request r, replacing what it held.
WriteFile(disk, p, r) ==
  [q \in DOMAIN disk \cup {p} |-> IF q = p THEN r ELSE disk[q]]
\* fs.unlinkSync(p) if fs.existsSync(p)
UnlinkFile(disk, p) == [q \in DOMAIN disk \ {p} |-> disk[q]]

\* fs.writeFileSync(tempPath, buffer) and the call of getVideoDuration.
WriteTemp(r) ==
  /\ tReq[r].pc = "parsed"
  /\ LET p == TempPathAt(tNow, tReq[r].ext) IN
       /\ tReq' = [tReq EXCEPT ![r].path = p, ![r].pc = "probing"]
       /\ tDisk' = WriteFile(tDisk, p, r)
  /\ UNCHANGED tNow
  /\ UNCHANGED <<vars, convVars, proxyVars, uiVars>>

\* getVideoDuration settles: resolved, the inner try is entered; rejected,
\* the outer catch answers and the file is left.
ProbeSettles(r, ok) ==
  /\ tReq[r].pc = "probing"
  /\ tReq' = [tReq EXCEPT ![r].pc = IF ok THEN "working" ELSE "done"]
  /\ UNCHANGED <<tNow, tDisk>>
  /\ UNCHANGED <<vars, convVars, proxyVars, uiVars>>

\* The inner try is left, by return or by throw: the finally block.
LeaveTry(r) ==
  /\ tReq[r].pc = "working"
  /\ tReq' = [tReq EXCEPT ![r].pc = "done"]
  /\ tDisk' = UnlinkFile(tDisk, tReq[r].path)
  /\ UNCHANGED tNow
  /\ UNCHANGED <<vars, convVars, proxyVars, uiVars>>

NextTwo ==
  \/ Tick
  \/ \E r \in RequestIds : WriteTemp(r)
  \/ \E r \in RequestIds, ok \in BOOLEAN : ProbeSettles(r, ok)
  \/ \E r \in RequestIds : LeaveTry(r)

SpecTwo == InitTwo /\ [][NextTwo]_allVars

UsesTempFile(r) == tReq[r].pc \in {"probing", "working"}
\* C16: any two requests handled at once, two that reach the temp-file step
\* at the same millisecond with the same content type included, use distinct
\* temporary video paths, so none overwrites, reads or deletes a temporary
\* file that another request in flight created.
C16_DistinctTempFiles ==
  /\ \A r1, r2 \in RequestIds :
       (r1 # r2 /\ UsesTempFile(r1) /\ UsesTempFile(r2)) =>
         tReq[r1].path # tReq[r2].path
  /\ \A r \in RequestIds :
       UsesTempFile(r) =>
         (tReq[r].path \in DOMAIN tDisk /\ tDisk[tReq[r].path] = r)

----------------------------------------------------------------------------
(* ------------------ the proxy route, api/analyze ---------------------- *)
\* src/app/api/analyze/route.ts holds two bodies of POST: the first forwards
\* to http://localhost:5001/api/analyze, the second to /api/analyze on the
\* host and protocol of the incoming request.  Either may be the one built.
ProxyRoutes == {"localhost", "self"}
\* What a backend on localhost:5001 may answer: fetch rejects, a status that
\* is not ok, ok with a JSON body, ok with a body that is no JSON.
BackendAnswers == {"rejects", "notOk", "okJson", "okText"}
NewInvocation == [pc |-> "start", got |-> ""]
Top == pxStack[Len(pxStack)]
SetTop(f) == [pxStack EXCEPT ![Len(pxStack)] = f]

InitProxy ==
  /\ pxRoute \in ProxyRoutes
  /\ pxBody \in Requests
  /\ pxStack = <<NewInvocation>>
  /\ pxForwards = 0
  /\ pxResponse = 0
  /\ MainOff /\ ConvOff /\ TwoOff /\ UiOff

\* The fetched URL is this route's own: `${proto}://${host}/api/analyze`.
ForwardsToSelf(route) == route = "self"

\* The handler's invocation on top returns `status`: to the invocation that
\* forwarded to it, or to the client.
ProxyReturn(status) ==
  /\ IF Len(pxStack) = 1
       THEN /\ pxResponse' = status
            /\ pxStack' = <<>>
       ELSE /\ pxStack' =
                 [SubSeq(pxStack, 1, Len(pxStack) - 1) EXCEPT
                    ![Len(pxStack) - 1] =
                       [pc |-> "resumed",
                        got |-> IF status = 200 THEN "okJson" ELSE "notOk"]]
            /\ UNCHANGED pxResponse

\* request.json() and the call of fetch.  The outermost body may be
\* unreadable; a forwarded body is JSON.stringify's and reads.
ProxyReceive ==
  /\ pxStack # <<>>
  /\ Top.pc = "start"
  /\ IF Len(pxStack) = 1 /\ ~pxBody.readable
       THEN ProxyReturn(500) /\ UNCHANGED pxForwards
       ELSE /\ pxForwards' = pxForwards + 1
            /\ pxStack' =
                 IF ForwardsToSelf(pxRoute) /\ Len(pxStack) < MaxHops
                   THEN Append(SetTop([pc |-> "waiting", got |-> ""]), NewInvocation)
                   ELSE SetTop([pc |-> "waiting", got |-> ""])
            /\ UNCHANGED pxResponse
  /\ UNCHANGED <<pxRoute, pxBody>>
  /\ UNCHANGED <<vars, convVars, twoVars, uiVars>>

\* The backend on localhost:5001 answers.
BackendAnswersWith(answer) ==
  /\ pxStack # <<>>
  /\ Top.pc = "waiting"
  /\ ~ForwardsToSelf(pxRoute)
  /\ pxStack' = SetTop([pc |-> "resumed", got |-> answer])
  /\ UNCHANGED <<pxRoute, pxBody, pxForwards, pxResponse>>
  /\ UNCHANGED <<vars, convVars, twoVars, uiVars>>

\* The platform lets no further invocation run: the innermost fetch fails.
PlatformRefuses ==
  /\ pxStack # <<>>
  /\ Top.pc = "waiting"
  /\ ForwardsToSelf(pxRoute)
  /\ Len(pxStack) = MaxHops
  /\ pxStack' = SetTop([pc |-> "resumed", got |-> "rejects"])
  /\ UNCHANGED <<pxRoute, pxBody, pxForwards, pxResponse>>
  /\ UNCHANGED <<vars, convVars, twoVars, uiVars>>

\* After the fetch: response.text(), the ok check, JSON.parse, and the
\* answer: the backend's JSON, or 500 from the catch.
ProxyAnswer ==
  /\ pxStack # <<>>
  /\ Top.pc = "resumed"
  /\ ProxyReturn(IF Top.got = "okJson" THEN 200 ELSE 500)
  /\ UNCHANGED <<pxRoute, pxBody, pxForwards>>
  /\ UNCHANGED <<vars, convVars, twoVars, uiVars>>

NextProxy ==
  \/ ProxyReceive
  \/ \E answer \in BackendAnswers : BackendAnswersWith(answer)
  \/ PlatformRefuses
  \/ ProxyAnswer

SpecProxy == InitProxy /\ [][NextProxy]_allVars

\* C19: the proxy forwards each incoming request to a backend other than
\* itself: the forwarded request is not handled by this route again, so one
\* incoming request causes one forwarded request.
C19_ForwardsElsewhere ==
  /\ Len(pxStack) <= 1
  /\ pxForwards <= 1

----------------------------------------------------------------------------
(* --------------- VideoProcessor.handleProcessVideo -------------------- *)
\* Math.random() * 15, by two of its values.
ProgressSteps == {5, 15}
\* Math.round(progress * 100) of a download progress event, by two values.
DownloadPercents == {50, 100}

InitUI ==
  /\ uiVideoUrl = FALSE
  /\ processing = FALSE
  /\ processProgress = 0
  /\ intervals = {}
  /\ timeouts = 0
  /\ awaiting = {}
  /\ runs = 0
  /\ MainOff /\ ConvOff /\ TwoOff /\ ProxyOff

\* handleUpload / handleUrlSubmit: setVideoUrl; the inputs are disabled
\* while a video is processed.
setVideoUrl ==
  /\ ~processing
  /\ ~uiVideoUrl
  /\ uiVideoUrl' = TRUE
  /\ UNCHANGED <<processing, processProgress, intervals, timeouts, awaiting, runs>>
  /\ UNCHANGED <<vars, convVars, twoVars, proxyVars>>

\* The handler up to its await: the early return without a video, else
\* setProcessing(true), setProcessProgress(0), setInterval and axios.post.
handleProcessVideo ==
  /\ ~processing
  /\ runs < MaxRuns
  /\ runs' = runs + 1
  /\ IF ~uiVideoUrl
       THEN UNCHANGED <<processing, processProgress, intervals, awaiting>>
       ELSE /\ processing' = TRUE
            /\ processProgress' = 0
            /\ intervals' = intervals \cup {runs + 1}
            /\ awaiting' = awaiting \cup {runs + 1}
  /\ UNCHANGED <<uiVideoUrl, timeouts>>
  /\ UNCHANGED <<vars, convVars, twoVars, proxyVars>>

\* The callback of setInterval, every 500 ms while its timer lives.
IntervalTick(step) ==
  /\ intervals # {}
  /\ processProgress' =
       IF processProgress + step > 95 THEN 95 ELSE processProgress + step
  /\ UNCHANGED <<uiVideoUrl, processing, intervals, timeouts, awaiting, runs>>
  /\ UNCHANGED <<vars, convVars, twoVars, proxyVars>>

\* onDownloadProgress of the post in flight.
DownloadProgress(percent) ==
  /\ awaiting # {}
  /\ processProgress' = percent
  /\ UNCHANGED <<uiVideoUrl, processing, intervals, timeouts, awaiting, runs>>
  /\ UNCHANGED <<vars, convVars, twoVars, proxyVars>>

\* finally: setTimeout(() => setProcessProgress(0), 1000), setProcessing(false).
FinallyUI ==
  /\ timeouts' = timeouts + 1
  /\ processing' = FALSE

\* What the failure path does with the timers of setInterval: it leaves
\* them; `interval` is a const of the try block.
IntervalsAfterFailure(r) == intervals

\* axios.post resolves: clearInterval(interval), setProcessProgress(100),
\* the logs, then finally.  A throw in the logs comes after clearInterval.
PostSucceeds(r) ==
  /\ r \in awaiting
  /\ awaiting' = awaiting \ {r}
  /\ intervals' = intervals \ {r}
  /\ processProgress' = 100
  /\ FinallyUI
  /\ UNCHANGED <<uiVideoUrl, runs>>
  /\ UNCHANGED <<vars, convVars, twoVars, proxyVars>>

\* axios.post rejects: catch (setError), then finally.
PostFails(r) ==
  /\ r \in awaiting
  /\ awaiting' = awaiting \ {r}
  /\ intervals' = IntervalsAfterFailure(r)
  /\ FinallyUI
  /\ UNCHANGED <<uiVideoUrl, processProgress, runs>>
  /\ UNCHANGED <<vars, convVars, twoVars, proxyVars>>

\* The callback of finally's setTimeout.
TimeoutFires ==
  /\ timeouts > 0
  /\ timeouts' = timeouts - 1
  /\ processProgress' = 0
  /\ UNCHANGED <<uiVideoUrl, processing, intervals, awaiting, runs>>
  /\ UNCHANGED <<vars, convVars, twoVars, proxyVars>>

NextUI ==
  \/ setVideoUrl
  \/ handleProcessVideo
  \/ \E step \in ProgressSteps : IntervalTick(step)
  \/ \E percent \in DownloadPercents : DownloadProgress(percent)
  \/ \E r \in 1..MaxRuns : PostSucceeds(r)
  \/ \E r \in 1..MaxRuns : PostFails(r)
  \/ TimeoutFires

SpecUI == InitUI /\ [][NextUI]_allVars

\* C20: once a run of handleProcessVideo has ended, on the success path or
\* on the failure path, processing is false and the run's progress timer
\* is cleared.
C20_RunEndsClean ==
  awaiting = {} => (~processing /\ intervals = {})

====
